---------------------------- MODULE Spec2Model ----------------------------
(* Hermes HAProxy statistics: ProxyStats.current_proxies and                *)
(* ProxyStats._get_field_value of Hermes/stats/proxy.py.                    *)
(*                                                                          *)
(* A raw text (a csv cell) is a sequence of one-character strings, so that  *)
(* int() can be modelled by what it does to the characters.  Field names    *)
(* (dictionary keys, slot names) are strings.                               *)
EXTENDS Integers, Sequences, FiniteSets, TLC

-----------------------------------------------------------------------------
(* Bounds of the model                                                      *)

\* most data rows in a snapshot
MaxRows == 2
\* most known columns dropped from the snapshot header
MaxMissed == 2
\* longest raw text handed to _get_field_value on its own
MaxTextLen == 2

-----------------------------------------------------------------------------
(* Field registry: the __slots__ of the four attr classes, in declaration   *)
(* order                                                                    *)

Range(s) == {s[j] : j \in 1..Len(s)}

ListenerSlots ==
  <<"pxname", "svname", "scur", "smax", "slim", "stot", "bin", "bout",
    "dreq", "dresp", "ereq", "status", "pid", "iid", "sid", "type">>

FrontendSlots ==
  <<"pxname", "svname", "scur", "smax", "slim", "stot", "bin", "bout",
    "dreq", "dresp", "ereq", "status", "pid", "iid", "type", "rate",
    "rate_lim", "rate_max", "hrsp_1xx", "hrsp_2xx", "hrsp_3xx", "hrsp_4xx",
    "hrsp_5xx", "hrsp_other", "req_rate", "req_rate_max", "req_tot",
    "comp_in", "comp_out", "comp_byp", "comp_rsp">>

BackendSlots ==
  <<"pxname", "svname", "qcur", "qmax", "scur", "smax", "slim", "stot",
    "bin", "bout", "dreq", "dresp", "econ", "eresp", "wretr", "wredis",
    "status", "weight", "act", "bck", "chkdown", "lastchg", "downtime",
    "pid", "iid", "lbtot", "type", "rate", "rate_max", "hrsp_1xx",
    "hrsp_2xx", "hrsp_3xx", "hrsp_4xx", "hrsp_5xx", "hrsp_other",
    "cli_abrt", "srv_abrt", "comp_in", "comp_out", "comp_byp", "comp_rsp",
    "lastsess", "qtime", "ctime", "rtime", "ttime">>

ServerSlots ==
  <<"unified_server_name", "pxname", "svname", "qcur", "qmax", "scur",
    "smax", "slim", "stot", "bin", "bout", "dresp", "econ", "eresp",
    "wretr", "wredis", "status", "weight", "act", "bck", "chkfail",
    "chkdown", "lastchg", "downtime", "qlimit", "pid", "iid", "sid",
    "throttle", "lbtot", "tracked", "type", "rate", "rate_max",
    "check_status", "check_code", "check_duration", "hrsp_1xx", "hrsp_2xx",
    "hrsp_3xx", "hrsp_4xx", "hrsp_5xx", "hrsp_other", "hanafail",
    "cli_abrt", "srv_abrt", "lastsess", "last_chk", "last_agt", "qtime",
    "ctime", "rtime", "ttime">>

\* stats_type.__slots__ ; a kind names one of the four classes
Slots(kind) ==
  CASE kind = "Listener" -> ListenerSlots
    [] kind = "Frontend" -> FrontendSlots
    [] kind = "Backend"  -> BackendSlots
    [] kind = "Server"   -> ServerSlots

ALL_HAPROXY_FIELDS ==
  Range(ListenerSlots) \cup Range(FrontendSlots)
    \cup Range(BackendSlots) \cup Range(ServerSlots)

KNOWN_NON_INTEGER_FIELDS ==
  {"pxname", "svname", "status", "check_status", "last_chk", "last_agt"}

INTEGER_FIELDS == ALL_HAPROXY_FIELDS \ KNOWN_NON_INTEGER_FIELDS

-----------------------------------------------------------------------------
(* Cell values.  Every value has the same shape: t is the Python type of    *)
(* the value, n its number (for an int), s its text (for a str).  A call    *)
(* that raises is the value with t = "ValueError".                          *)

UNKNOWN_VALUE == [t |-> "unknown", n |-> 0, s |-> <<>>]
NoneValue == [t |-> "none", n |-> 0, s |-> <<>>]
IntValue(k) == [t |-> "int", n |-> k, s |-> <<>>]
StrValue(text) == [t |-> "str", n |-> 0, s |-> text]
RaisedValueError(text) == [t |-> "ValueError", n |-> 0, s |-> text]

-----------------------------------------------------------------------------
(* int(value) of a str, as Python 2.7 reads it: blanks are skipped, then    *)
(* one optional sign, then one or more decimal digits, then blanks up to    *)
(* the end of the text                                                      *)

DigitChars == {"0", "1", "2", "3", "4", "5", "6", "7", "8", "9"}

DigitVal(c) ==
  CASE c = "0" -> 0 [] c = "1" -> 1 [] c = "2" -> 2 [] c = "3" -> 3
    [] c = "4" -> 4 [] c = "5" -> 5 [] c = "6" -> 6 [] c = "7" -> 7
    [] c = "8" -> 8 [] c = "9" -> 9

RECURSIVE LStrip(_)
LStrip(text) ==
  IF text # <<>> /\ Head(text) = " " THEN LStrip(Tail(text)) ELSE text

RECURSIVE RStrip(_)
RStrip(text) ==
  IF text # <<>> /\ text[Len(text)] = " "
  THEN RStrip(SubSeq(text, 1, Len(text) - 1))
  ELSE text

\* what is left for the digits once the blanks and the sign are taken
IntBody(text) ==
  LET t == RStrip(LStrip(text))
  IN  IF t # <<>> /\ Head(t) \in {"+", "-"} THEN Tail(t) ELSE t

RECURSIVE DigitsValue(_, _)
DigitsValue(digits, acc) ==
  IF digits = <<>> THEN acc
  ELSE DigitsValue(Tail(digits), 10 * acc + DigitVal(Head(digits)))

\* whether int(text) returns
IntAccepts(text) ==
  LET body == IntBody(text)
  IN  body # <<>> /\ \A j \in 1..Len(body) : body[j] \in DigitChars

\* the number int(text) returns when it does
IntOf(text) ==
  LET v == DigitsValue(IntBody(text), 0)
  IN  IF Head(LStrip(text)) = "-" THEN 0 - v ELSE v

-----------------------------------------------------------------------------
(* ProxyStats._get_field_value(row, field_name)                             *)

\* a faulty variant: an empty cell of an integer field counts as zero
GetFieldValueEmptyIsZero(row, field_name) ==
  IF field_name \notin DOMAIN row THEN UNKNOWN_VALUE
  ELSE LET value == row[field_name]
       IN  IF value = <<>>
           THEN IF field_name \in INTEGER_FIELDS THEN IntValue(0) ELSE NoneValue
           ELSE IF field_name \in INTEGER_FIELDS
                THEN IF IntAccepts(value) THEN IntValue(IntOf(value))
                     ELSE RaisedValueError(value)
                ELSE StrValue(value)

\* a faulty variant: text that int() rejects is passed through as text
GetFieldValueLenient(row, field_name) ==
  IF field_name \notin DOMAIN row THEN UNKNOWN_VALUE
  ELSE LET value == row[field_name]
       IN  IF value = <<>> THEN NoneValue
           ELSE IF field_name \in INTEGER_FIELDS /\ IntAccepts(value)
                THEN IntValue(IntOf(value))
                ELSE StrValue(value)

_get_field_value(row, field_name) ==
  IF field_name \notin DOMAIN row THEN UNKNOWN_VALUE
  ELSE LET value == row[field_name]
       IN  IF value = <<>> THEN NoneValue
           ELSE IF field_name \in INTEGER_FIELDS
                THEN IF IntAccepts(value) THEN IntValue(IntOf(value))
                     ELSE RaisedValueError(value)
                ELSE StrValue(value)

-----------------------------------------------------------------------------
(* State                                                                    *)

VARIABLES
  header,          \* table.fieldnames, the columns of the snapshot
  rows,            \* the data lines of the table, see RowDict
  pc,              \* where current_proxies is: "idle", "start", "rows",
                   \* "returned", "raised"
  cur,             \* number of rows the loop has taken from the table
  log,             \* logging.warning calls so far, each the fields it lists
  parsed_objects,  \* dict proxy name -> list of stats objects
  stats_type,      \* kind chosen for the row taken last, "none" before
  stats_values,    \* dict built for the row taken last, empty before
  exc,             \* the exception current_proxies raised, if any
  result,          \* proxy_stats_list as returned
  arg_row,         \* _get_field_value called on its own: its row,
  arg_field,       \*   its field_name,
  ret,             \*   the value it returned or the error it raised
  fpc              \*   and where the call is: "idle", "call", "returned", "raised"

vars ==
  <<header, rows, pc, cur, log, parsed_objects, stats_type, stats_values,
    exc, result, arg_row, arg_field, ret, fpc>>

proxyVars ==
  <<header, rows, pc, cur, log, parsed_objects, stats_type, stats_values,
    exc, result>>

fieldVars == <<arg_row, arg_field, ret, fpc>>

-----------------------------------------------------------------------------
(* Exceptions.  key is the missing dictionary key of a KeyError, field the  *)
(* field whose text int() rejected; proxy, frontends and backends are what  *)
(* the message of InvalidHAProxyStats is formatted from.                    *)

Exc(type, key, proxy, frontends, backends) ==
  [type |-> type, key |-> key, proxy |-> proxy,
   frontends |-> frontends, backends |-> backends]

NoExc == Exc("none", "", <<>>, 0, 0)
KeyError(key) == Exc("KeyError", key, <<>>, 0, 0)
ValueError(field) == Exc("ValueError", field, <<>>, 0, 0)
TypeError(key) == Exc("TypeError", key, <<>>, 0, 0)
InvalidHAProxyStats(proxy_name, frontends, backends) ==
  Exc("InvalidHAProxyStats", "", proxy_name, frontends, backends)

-----------------------------------------------------------------------------
(* The snapshot header and the warning about missed fields                  *)

\* a faulty variant: the difference taken the wrong way round
MissedFieldsReversed(fieldnames) == fieldnames \ ALL_HAPROXY_FIELDS

MissedFields(fieldnames) == ALL_HAPROXY_FIELDS \ fieldnames

LogMissedFields(lg, missed_fields) ==
  IF missed_fields # {} THEN Append(lg, missed_fields) ELSE lg

-----------------------------------------------------------------------------
(* Row classification                                                       *)

FRONTEND == <<"F", "R", "O", "N", "T", "E", "N", "D">>
BACKEND == <<"B", "A", "C", "K", "E", "N", "D">>

Classified(kind) == [kind |-> kind, exc |-> NoExc]
ClassifyRaised(e) == [kind |-> "none", exc |-> e]

\* a faulty variant: the server/listener decision reads the session count
StatsTypeByScur(row) ==
  IF "svname" \notin DOMAIN row THEN ClassifyRaised(KeyError("svname"))
  ELSE IF row["svname"] = FRONTEND THEN Classified("Frontend")
  ELSE IF row["svname"] = BACKEND THEN Classified("Backend")
  ELSE IF "scur" \notin DOMAIN row THEN ClassifyRaised(KeyError("scur"))
  ELSE IF row["scur"] # <<>> THEN Classified("Server")
  ELSE Classified("Listener")

StatsType(row) ==
  IF "svname" \notin DOMAIN row THEN ClassifyRaised(KeyError("svname"))
  ELSE IF row["svname"] = FRONTEND THEN Classified("Frontend")
  ELSE IF row["svname"] = BACKEND THEN Classified("Backend")
  ELSE IF "qcur" \notin DOMAIN row THEN ClassifyRaised(KeyError("qcur"))
  ELSE IF row["qcur"] # <<>> THEN Classified("Server")
  ELSE Classified("Listener")

-----------------------------------------------------------------------------
(* Building the record of a row                                             *)

\* the dict comprehension over stats_type.__slots__: the fields are taken in
\* slot order and the first int() that raises ends it
StatsValues(row, kind) ==
  LET slots == Slots(kind)
      bad == {j \in 1..Len(slots) :
                _get_field_value(row, slots[j]).t = "ValueError"}
  IN  IF bad # {}
      THEN [exc |-> ValueError(slots[CHOOSE j \in bad : \A k \in bad : j <= k]),
            values |-> <<>>]
      ELSE [exc |-> NoExc,
            values |-> [f \in Range(slots) |-> _get_field_value(row, f)]]

\* the name-resolution collaborator
get_server_name(proxy_name, svname) == proxy_name \o <<":">> \o svname
get_service_name(proxy_name) == <<"@">> \o proxy_name

NoObject == [kind |-> "none", fields |-> <<>>]

\* stats_type(unified_server_name=server_name, **stats_values): the call has
\* the keyword unified_server_name and the keys of stats_values; a keyword
\* given twice, a keyword that is no attribute of the class, or an attribute
\* without a keyword is a TypeError
Construct(kind, server_name, values) ==
  LET attrs == Range(Slots(kind))
      keywords == {"unified_server_name"} \cup DOMAIN values
  IN  IF "unified_server_name" \in DOMAIN values
      THEN [exc |-> TypeError("unified_server_name"), obj |-> NoObject]
      ELSE IF keywords \ attrs # {}
      THEN [exc |-> TypeError(CHOOSE k \in keywords \ attrs : TRUE),
            obj |-> NoObject]
      ELSE IF attrs \ keywords # {}
      THEN [exc |-> TypeError(CHOOSE k \in attrs \ keywords : TRUE),
            obj |-> NoObject]
      ELSE [exc |-> NoExc,
            obj |-> [kind |-> kind,
                     fields |-> [f \in attrs |->
                                   IF f = "unified_server_name"
                                   THEN StrValue(server_name)
                                   ELSE values[f]]]]

\* parsed_objects[proxy_name].append(stats) on a defaultdict(list)
AppendTo(po, proxy_name, stats) ==
  [p \in DOMAIN po \cup {proxy_name} |->
     IF p = proxy_name
     THEN (IF p \in DOMAIN po THEN Append(po[p], stats) ELSE <<stats>>)
     ELSE po[p]]

\* one pass of the body of "for row in table"
LoopBody(row, po) ==
  LET out(e, kind, values, newpo) ==
        [exc |-> e, stats_type |-> kind, stats_values |-> values,
         parsed_objects |-> newpo]
  IN  IF "pxname" \notin DOMAIN row
      THEN out(KeyError("pxname"), "none", <<>>, po)
      ELSE
        LET c == StatsType(row) IN
        IF c.exc # NoExc THEN out(c.exc, "none", <<>>, po)
        ELSE
          LET sv == StatsValues(row, c.kind) IN
          IF sv.exc # NoExc THEN out(sv.exc, c.kind, <<>>, po)
          ELSE
            LET made == Construct(c.kind,
                                  get_server_name(row["pxname"], row["svname"]),
                                  sv.values)
            IN  IF made.exc # NoExc THEN out(made.exc, c.kind, sv.values, po)
                ELSE out(NoExc, c.kind, sv.values,
                         AppendTo(po, row["pxname"], made.obj))

-----------------------------------------------------------------------------
(* Merging the stats objects of each proxy                                  *)

OfKind(stats_objects, kind) ==
  SelectSeq(stats_objects, LAMBDA stats : stats.kind = kind)

\* utc_timestamp, the clock reading every aggregate of a call shares, is
\* left out: nothing is decided by it
ProxyStats(proxy_name, frontends, backends, servers, listeners) ==
  [name |-> proxy_name,
   unified_service_name |-> get_service_name(proxy_name),
   frontend |-> frontends[1], backend |-> backends[1],
   servers |-> servers, listeners |-> listeners]

\* the orders in which iteritems() may hand out the keys of a dict
IterOrders(keys) ==
  {o \in [1..Cardinality(keys) -> keys] :
     \A a, b \in 1..Cardinality(keys) : a # b => o[a] # o[b]}

\* the loop over parsed_objects.iteritems(), taking the keys in order
RECURSIVE Merge(_, _, _)
Merge(order, po, proxy_stats_list) ==
  IF order = <<>> THEN [exc |-> NoExc, list |-> proxy_stats_list]
  ELSE
    LET proxy_name == Head(order)
        frontends == OfKind(po[proxy_name], "Frontend")
        backends == OfKind(po[proxy_name], "Backend")
        servers == OfKind(po[proxy_name], "Server")
        listeners == OfKind(po[proxy_name], "Listener")
    IN  IF Len(frontends) # 1 \/ Len(backends) # 1
        THEN [exc |-> InvalidHAProxyStats(proxy_name, Len(frontends),
                                          Len(backends)),
              list |-> <<>>]
        ELSE Merge(Tail(order), po,
                   Append(proxy_stats_list,
                          ProxyStats(proxy_name, frontends, backends,
                                     servers, listeners)))

-----------------------------------------------------------------------------
(* The snapshots current_proxies is run on                                  *)

P1 == <<"p", "1">>
P2 == <<"p", "2">>
S1 == <<"s", "1">>

\* columns a snapshot may lack
DroppableFields == {"unified_server_name", "pxname", "svname", "qcur"}

Headers ==
  {ALL_HAPROXY_FIELDS \ missed :
     missed \in {m \in SUBSET DroppableFields : Cardinality(m) <= MaxMissed}}

\* the texts a cell of a column takes
CellTexts(column) ==
  CASE column = "pxname" -> {P1, P2}
    [] column = "svname" -> {FRONTEND, BACKEND, S1}
    [] column = "qcur" -> {<<>>, <<"0">>, <<"x">>}
    [] column = "scur" -> {<<>>, <<"a">>}

\* the columns whose cells differ from row to row; every other column of
\* the header holds the text "1" in every row
VariedColumns == {"pxname", "svname", "qcur", "scur"}

\* the cells of a line of the table under the varied columns of the header
LinesOf(fieldnames) ==
  {[column \in fieldnames \cap VariedColumns |->
      CASE column = "pxname" -> px
        [] column = "svname" -> sv
        [] column = "qcur" -> q
        [] column = "scur" -> sc] :
     px \in CellTexts("pxname"), sv \in CellTexts("svname"),
     q \in CellTexts("qcur"), sc \in CellTexts("scur")}

\* csv.DictReader: a row is a dict from the columns of the header to texts
RowDict(fieldnames, line) ==
  [column \in fieldnames |->
     IF column \in DOMAIN line THEN line[column] ELSE <<"1">>]

TablesOf(fieldnames) ==
  UNION {[1..n -> LinesOf(fieldnames)] : n \in 0..MaxRows}

-----------------------------------------------------------------------------
(* current_proxies                                                          *)

Init ==
  /\ header \in Headers
  /\ rows \in TablesOf(header)
  /\ pc = "start"
  /\ cur = 0
  /\ log = <<>>
  /\ parsed_objects = <<>>
  /\ stats_type = "none"
  /\ stats_values = <<>>
  /\ exc = NoExc
  /\ result = <<>>
  /\ arg_row = <<>>
  /\ arg_field = ""
  /\ ret = UNKNOWN_VALUE
  /\ fpc = "idle"

\* the table is read and the missed fields are warned about
ReadTable ==
  /\ pc = "start"
  /\ log' = LogMissedFields(log, MissedFields(header))
  /\ pc' = "rows"
  /\ UNCHANGED <<header, rows, cur, parsed_objects, stats_type, stats_values,
                 exc, result>>
  /\ UNCHANGED fieldVars

\* the loop takes the next row of the table
ParseRow ==
  /\ pc = "rows"
  /\ cur < Len(rows)
  /\ LET out == LoopBody(RowDict(header, rows[cur + 1]), parsed_objects)
     IN  /\ cur' = cur + 1
         /\ stats_type' = out.stats_type
         /\ stats_values' = out.stats_values
         /\ parsed_objects' = out.parsed_objects
         /\ exc' = out.exc
         /\ pc' = IF out.exc # NoExc THEN "raised" ELSE "rows"
  /\ UNCHANGED <<header, rows, log, result>>
  /\ UNCHANGED fieldVars

\* the table is exhausted: the stats objects are merged and returned
MergeProxies ==
  /\ pc = "rows"
  /\ cur = Len(rows)
  /\ \E order \in IterOrders(DOMAIN parsed_objects) :
       LET out == Merge(order, parsed_objects, <<>>)
       IN  /\ exc' = out.exc
           /\ result' = out.list
           /\ pc' = IF out.exc # NoExc THEN "raised" ELSE "returned"
  /\ UNCHANGED <<header, rows, cur, log, parsed_objects, stats_type,
                 stats_values>>
  /\ UNCHANGED fieldVars

Next == ReadTable \/ ParseRow \/ MergeProxies

Spec == Init /\ [][Next]_vars

-----------------------------------------------------------------------------
(* _get_field_value called on its own                                       *)

TextChars == {"0", "7", "-", " ", "a"}

Texts == UNION {[1..n -> TextChars] : n \in 0..MaxTextLen}

ArgColumns == {"scur", "status", "cookie"}

ArgFields == {"scur", "status", "cookie", "qcur"}

InitField ==
  /\ arg_field \in ArgFields
  /\ \E columns \in SUBSET ArgColumns, text \in Texts :
       arg_row = [column \in columns |->
                    IF column = arg_field THEN text ELSE <<"1">>]
  /\ ret = UNKNOWN_VALUE
  /\ fpc = "call"
  /\ header = {}
  /\ rows = <<>>
  /\ pc = "idle"
  /\ cur = 0
  /\ log = <<>>
  /\ parsed_objects = <<>>
  /\ stats_type = "none"
  /\ stats_values = <<>>
  /\ exc = NoExc
  /\ result = <<>>

GetFieldValue ==
  /\ fpc = "call"
  /\ ret' = _get_field_value(arg_row, arg_field)
  /\ fpc' = IF ret'.t = "ValueError" THEN "raised" ELSE "returned"
  /\ UNCHANGED <<arg_row, arg_field>>
  /\ UNCHANGED proxyVars

NextField == GetFieldValue

SpecField == InitField /\ [][NextField]_vars

-----------------------------------------------------------------------------
(* Vocabulary of the properties                                             *)

Finished == pc \in {"returned", "raised"}

\* row j of the snapshot as the loop sees it
Row(j) == RowDict(header, rows[j])

RowNumbers == 1..Len(rows)

\* the snapshot has the three columns the loop reads by name
NamedColumnsPresent == {"pxname", "svname", "qcur"} \subseteq header

\* the kind the ordered decision of the specification gives a row
DecidedKind(row) ==
  IF row["svname"] = FRONTEND THEN "Frontend"
  ELSE IF row["svname"] = BACKEND THEN "Backend"
  ELSE IF "qcur" \in DOMAIN row /\ row["qcur"] # <<>> THEN "Server"
  ELSE "Listener"

\* where the digits of a text are to be found: from the first non-blank
\* character, or the one after a leading sign, to the last non-blank one
NonBlank(text) == {j \in 1..Len(text) : text[j] # " "}
FirstOf(indexes) == CHOOSE j \in indexes : \A k \in indexes : j <= k
LastOf(indexes) == CHOOSE j \in indexes : \A k \in indexes : j >= k
Signed(text) ==
  NonBlank(text) # {} /\ text[FirstOf(NonBlank(text))] \in {"+", "-"}
DigitIndexes(text) ==
  IF NonBlank(text) = {} THEN {}
  ELSE IF Signed(text)
  THEN (FirstOf(NonBlank(text)) + 1)..LastOf(NonBlank(text))
  ELSE FirstOf(NonBlank(text))..LastOf(NonBlank(text))

\* a text that is no decimal integer: no digits, or something other than
\* digits where they should be
NonNumeric(text) ==
  \/ DigitIndexes(text) = {}
  \/ \E j \in DigitIndexes(text) : text[j] \notin DigitChars

\* the loop can give the row a kind: the columns it reads are there
Classifiable(row) ==
  /\ {"pxname", "svname"} \subseteq DOMAIN row
  /\ row["svname"] \in {FRONTEND, BACKEND} \/ "qcur" \in DOMAIN row

\* row holds non-empty non-numeric text under an integer field of its kind
HoldsBadInteger(row) ==
  \E f \in Range(Slots(DecidedKind(row))) \cap INTEGER_FIELDS \cap DOMAIN row :
    row[f] # <<>> /\ NonNumeric(row[f])

\* every integer cell that a record would take parses
Parseable ==
  /\ NamedColumnsPresent
  /\ \A j \in RowNumbers : ~HoldsBadInteger(Row(j))

ProxyNames == {Row(j)["pxname"] : j \in RowNumbers}

RowsOfProxy(proxy_name, svname) ==
  {j \in RowNumbers :
     Row(j)["pxname"] = proxy_name /\ Row(j)["svname"] = svname}

FrontendCount(proxy_name) == Cardinality(RowsOfProxy(proxy_name, FRONTEND))
BackendCount(proxy_name) == Cardinality(RowsOfProxy(proxy_name, BACKEND))

Malformed(proxy_name) ==
  FrontendCount(proxy_name) # 1 \/ BackendCount(proxy_name) # 1

WellFormed == \A p \in ProxyNames : ~Malformed(p)

\* the proxy names of the first j rows, each once, in first-encounter order
RECURSIVE FirstEncounter(_)
FirstEncounter(j) ==
  IF j = 0 THEN <<>>
  ELSE LET before == FirstEncounter(j - 1)
       IN  IF Row(j)["pxname"] \in Range(before) THEN before
           ELSE Append(before, Row(j)["pxname"])

\* the svname texts of the rows of a proxy that the decision gives a kind,
\* in row order
RECURSIVE SvnamesOfKind(_, _, _)
SvnamesOfKind(proxy_name, kind, j) ==
  IF j = 0 THEN <<>>
  ELSE LET before == SvnamesOfKind(proxy_name, kind, j - 1)
       IN  IF Row(j)["pxname"] = proxy_name /\ DecidedKind(Row(j)) = kind
           THEN Append(before, Row(j)["svname"])
           ELSE before

Svnames(stats_objects) ==
  [k \in 1..Len(stats_objects) |-> stats_objects[k].fields["svname"].s]

-----------------------------------------------------------------------------
(* Decimal notation, for stating what an integer result denotes             *)

DigitChar(d) ==
  CASE d = 0 -> "0" [] d = 1 -> "1" [] d = 2 -> "2" [] d = 3 -> "3"
    [] d = 4 -> "4" [] d = 5 -> "5" [] d = 6 -> "6" [] d = 7 -> "7"
    [] d = 8 -> "8" [] d = 9 -> "9"

RECURSIVE DecimalText(_)
DecimalText(k) ==
  IF k < 10 THEN <<DigitChar(k)>>
  ELSE Append(DecimalText(k \div 10), DigitChar(k % 10))

RECURSIVE StripZeros(_)
StripZeros(digits) ==
  IF Len(digits) > 1 /\ Head(digits) = "0" THEN StripZeros(Tail(digits))
  ELSE digits

DigitsOf(text) ==
  SubSeq(text, FirstOf(DigitIndexes(text)), LastOf(DigitIndexes(text)))

\* text is decimal notation of the integer k
Denotes(text, k) ==
  /\ ~NonNumeric(text)
  /\ StripZeros(DigitsOf(text)) = DecimalText(IF k < 0 THEN 0 - k ELSE k)
  /\ k < 0 => text[FirstOf(NonBlank(text))] = "-"
  /\ k > 0 => text[FirstOf(NonBlank(text))] # "-"

-----------------------------------------------------------------------------
(* Properties                                                               *)

\* C3: a row that current_proxies has classified has the kind of the ordered
\* decision: Frontend when its svname is FRONTEND, Backend when it is
\* BACKEND, whatever qcur holds; otherwise Server exactly when its qcur text
\* is non-empty and Listener when it is empty.  Nothing but svname and qcur
\* enters the decision.
ClassificationFollowsDecision ==
  (pc # "idle" /\ cur >= 1 /\ stats_type # "none") =>
    LET row == Row(cur)
    IN  /\ row["svname"] = FRONTEND => stats_type = "Frontend"
        /\ row["svname"] = BACKEND => stats_type = "Backend"
        /\ row["svname"] \notin {FRONTEND, BACKEND} =>
             /\ stats_type \in {"Server", "Listener"}
             /\ stats_type = "Server" <=>
                  ("qcur" \in DOMAIN row /\ row["qcur"] # <<>>)

\* C3 happens: a row with the FRONTEND marker and a non-empty qcur cell, and
\* another non-empty cell, was classified as a Frontend
FrontendWithQueueClassified ==
  /\ cur = 1
  /\ stats_type = "Frontend"
  /\ "qcur" \in header /\ Row(1)["qcur"] # <<>>
  /\ Row(1)["scur"] # <<>>

\* C4: _get_field_value gives Unknown for a field that is no column of the
\* row, None for an empty cell, the integer the text denotes for a non-empty
\* cell of an integer field, and the text itself otherwise; integer zero
\* comes only from a text that denotes zero, and Unknown is not None.
FieldValueContract ==
  (fpc \in {"returned", "raised"}) =>
    /\ arg_field \notin DOMAIN arg_row => fpc = "returned" /\ ret = UNKNOWN_VALUE
    /\ (arg_field \in DOMAIN arg_row /\ arg_row[arg_field] = <<>>) =>
         fpc = "returned" /\ ret = NoneValue
    /\ (arg_field \in DOMAIN arg_row /\ arg_row[arg_field] # <<>>
          /\ arg_field \in INTEGER_FIELDS /\ fpc = "returned") =>
         ret.t = "int" /\ Denotes(arg_row[arg_field], ret.n)
    /\ (arg_field \in DOMAIN arg_row /\ arg_field \in INTEGER_FIELDS
          /\ ~NonNumeric(arg_row[arg_field])) =>
         fpc = "returned"
    /\ (arg_field \in DOMAIN arg_row /\ arg_row[arg_field] # <<>>
          /\ arg_field \notin INTEGER_FIELDS) =>
         fpc = "returned" /\ ret = StrValue(arg_row[arg_field])
    /\ (fpc = "returned" /\ ret.t = "int" /\ ret.n = 0) =>
         /\ arg_field \in DOMAIN arg_row
         /\ arg_row[arg_field] # <<>>
         /\ Denotes(arg_row[arg_field], 0)
    /\ UNKNOWN_VALUE # NoneValue
    /\ ret \in {UNKNOWN_VALUE, NoneValue} => ret.t # "int"

\* C4 happens: an integer field returned zero from a text of zeros
ZeroFromZeroText ==
  /\ fpc = "returned"
  /\ ret = IntValue(0)
  /\ arg_field = "scur"
  /\ arg_row["scur"] = <<"0", "0">>

\* C8: a row holding non-empty non-numeric text under an integer field of
\* its kind makes current_proxies raise the ValueError of int() when the
\* loop takes the row; no snapshot with such a row is answered by a list.
NonNumericAborts ==
  /\ (pc \in {"rows", "returned", "raised"} /\ cur >= 1
        /\ Classifiable(Row(cur)) /\ HoldsBadInteger(Row(cur))) =>
       /\ pc = "raised"
       /\ exc.type = "ValueError"
       /\ result = <<>>
  /\ (Finished /\ \E j \in RowNumbers :
                    Classifiable(Row(j)) /\ HoldsBadInteger(Row(j))) =>
       pc = "raised" /\ result = <<>>

\* C8 happens: every proxy has one frontend and one backend, one of the
\* rows holds non-numeric text in an integer column, and the call raised
NonNumericInWellFormedRaised ==
  /\ pc = "raised"
  /\ exc.type = "ValueError"
  /\ NamedColumnsPresent
  /\ Len(rows) = 2
  /\ WellFormed
  /\ HoldsBadInteger(Row(1))

\* how many warnings list a field
Mentions(f) == Cardinality({k \in 1..Len(log) : f \in log[k]})

\* C9: once the table is read, every known field the header lacks has been
\* listed in a warning exactly once and no other field has, however many
\* rows have been taken since; the warning raises nothing.
WarnedOncePerMissedField ==
  /\ pc = "start" => log = <<>>
  /\ pc \in {"rows", "returned", "raised"} =>
       \A f \in ALL_HAPROXY_FIELDS \cup header :
         Mentions(f) = IF f \in ALL_HAPROXY_FIELDS /\ f \notin header
                       THEN 1 ELSE 0
  /\ (pc = "rows" /\ cur = 0) => exc = NoExc

\* C9 happens: two fields are missed, the snapshot has two rows, and the
\* loop went on to take a row after the warning
WarnedThenParsed ==
  /\ Cardinality(ALL_HAPROXY_FIELDS \ header) = 2
  /\ Len(log) = 1
  /\ Len(rows) = 2
  /\ cur = 1
  /\ stats_type # "none"

-----------------------------------------------------------------------------
(* Statements the code does not meet                                        *)

\* C2: a call on a snapshot in which some proxy has a frontend count or a
\* backend count other than one ends in InvalidHAProxyStats carrying the
\* name of such a proxy and its two counts, and returns no list.  (The
\* snapshot has the columns the loop reads and every integer cell parses.)
MalformedRaisesInvalidStats ==
  (Finished /\ Parseable /\ \E p \in ProxyNames : Malformed(p)) =>
    /\ pc = "raised"
    /\ exc.type = "InvalidHAProxyStats"
    /\ exc.proxy \in ProxyNames
    /\ Malformed(exc.proxy)
    /\ exc.frontends = FrontendCount(exc.proxy)
    /\ exc.backends = BackendCount(exc.proxy)
    /\ result = <<>>

\* C5: with a header that lacks the qcur column, a row without the FRONTEND
\* or BACKEND marker is classified as a Listener and the call does not fail
\* for want of the column.
MissingQcurTolerated ==
  (pc \in {"rows", "returned", "raised"} /\ cur >= 1
     /\ "qcur" \notin header /\ {"pxname", "svname"} \subseteq header
     /\ Row(cur)["svname"] \notin {FRONTEND, BACKEND}) =>
    /\ stats_type = "Listener"
    /\ exc.type # "KeyError"

RecordBuiltForClassifiedRow ==
  (pc \in {"rows", "returned", "raised"} /\ cur >= 1
     /\ Classifiable(Row(cur)) /\ ~HoldsBadInteger(Row(cur))) =>
    LET row == Row(cur)
        px == row["pxname"]
    IN  /\ exc.type \notin {"TypeError", "KeyError", "ValueError"}
        /\ px \in DOMAIN parsed_objects
        /\ LET made == parsed_objects[px][Len(parsed_objects[px])]
           IN  /\ made.kind = DecidedKind(row)
               /\ DOMAIN made.fields = Range(Slots(made.kind))
               /\ \A f \in DOMAIN made.fields \ {"unified_server_name"} :
                    made.fields[f] = _get_field_value(row, f)
               /\ made.kind = "Server" =>
                    made.fields["unified_server_name"] =
                      StrValue(get_server_name(px, row["svname"]))
        /\ cur = Cardinality({<<p, k>> \in
                   UNION {{p} \X (1..Len(parsed_objects[p])) :
                            p \in DOMAIN parsed_objects} : TRUE})

=============================================================================
